---- MODULE Spec2Model ----
(***************************************************************************)
(* Model of the transport feedback API: the Express handlers of            *)
(* feedbackController.js, the repository of feedbackModel.js, the error    *)
(* middleware of app.js and the feedback_users table of the README schema. *)
(*                                                                         *)
(* JavaScript runs one handler segment at a time and the store executes    *)
(* one statement at a time, so a handler is atomic from one await to the   *)
(* next.  Every handler but the update handler awaits once; the update     *)
(* handler awaits twice (UPDATE, then SELECT), and other requests may run  *)
(* between its two statements.                                             *)
(***************************************************************************)
EXTENDS Integers, Sequences, FiniteSets, TLC

VARIABLES
    table,      \* the rows of feedback_users
    autoInc,    \* the table's AUTO_INCREMENT counter
    now,        \* the store's CURRENT_TIMESTAMP
    pending,    \* update requests between their UPDATE and their SELECT
    resp,       \* the HTTP response being sent (NoResp: none)
    deleted     \* history: the ids whose DELETE was answered 200

vars == <<table, autoInc, now, pending, resp, deleted>>

(***************************************************************************)
(* Bounds.                                                                 *)
(***************************************************************************)
\* the inserts stop when AUTO_INCREMENT has passed MaxId
MaxId == 2

\* the update requests that may be between their two statements at once
Conns == {"u1"}

(***************************************************************************)
(* JavaScript / JSON values.  Every value is a record of the same shape:   *)
(* t is the typeof tag ("undefined", "null", "number", "string",           *)
(* "boolean", "date"), n the integer part, f the tenths of a number and s  *)
(* the characters of a string.                                             *)
(***************************************************************************)
Undefined == [t |-> "undefined", n |-> 0, f |-> 0, s |-> <<>>]
Null == [t |-> "null", n |-> 0, f |-> 0, s |-> <<>>]
Num(i) == [t |-> "number", n |-> i, f |-> 0, s |-> <<>>]
Frac(i, tenths) == [t |-> "number", n |-> i, f |-> tenths, s |-> <<>>]
Str(cs) == [t |-> "string", n |-> 0, f |-> 0, s |-> cs]
Bool(b) == [t |-> "boolean", n |-> IF b THEN 1 ELSE 0, f |-> 0, s |-> <<>>]
Date(i) == [t |-> "date", n |-> i, f |-> 0, s |-> <<>>]

\* The one element of a singleton.  Only({e(x) : x \in {d}}) is e with x
\* standing for the value of d, which is then worked out once.
Only(S) == CHOOSE x \in S : TRUE

\* typeof x
TypeOf(v) == IF v.t = "null" \/ v.t = "date" THEN "object" ELSE v.t

\* !x
Falsy(v) ==
    \/ v.t = "undefined"
    \/ v.t = "null"
    \/ v.t = "boolean" /\ v.n = 0
    \/ v.t = "number" /\ v.n = 0 /\ v.f = 0
    \/ v.t = "string" /\ v.s = <<>>

WhiteSpace == {" "}

RECURSIVE TrimStart(_)
TrimStart(cs) ==
    IF cs # <<>> /\ Head(cs) \in WhiteSpace THEN TrimStart(Tail(cs)) ELSE cs

RECURSIVE TrimEnd(_)
TrimEnd(cs) ==
    IF cs # <<>> /\ cs[Len(cs)] \in WhiteSpace
    THEN TrimEnd(SubSeq(cs, 1, Len(cs) - 1))
    ELSE cs

\* String.prototype.trim
Trim(cs) == TrimEnd(TrimStart(cs))

Digits == <<"0", "1", "2", "3", "4", "5", "6", "7", "8", "9">>

IsDigit(c) == \E d \in 1..Len(Digits) : Digits[d] = c

DigitVal(c) == (CHOOSE d \in 1..Len(Digits) : Digits[d] = c) - 1

RECURSIVE DigitPrefix(_, _)
\* the value of the longest prefix of digits of cs, from the value acc
DigitPrefix(cs, acc) ==
    IF cs # <<>> /\ IsDigit(Head(cs))
    THEN DigitPrefix(Tail(cs), acc * Len(Digits) + DigitVal(Head(cs)))
    ELSE acc

\* parseInt(cs, 10): leading white space, a sign, then the longest run of
\* digits; what follows the digits is ignored; NaN without a digit.
ParseInt(cs) ==
    Only({
        Only({
            IF ds = <<>> \/ ~IsDigit(Head(ds))
            THEN [nan |-> TRUE, v |-> 0]
            ELSE [nan |-> FALSE,
                  v |-> IF body # <<>> /\ Head(body) = "-"
                        THEN 0 - DigitPrefix(ds, 0)
                        ELSE DigitPrefix(ds, 0)]
            : ds \in {IF body # <<>> /\ Head(body) \in {"-", "+"}
                      THEN Tail(body)
                      ELSE body}})
        : body \in {TrimStart(cs)}})

RECURSIVE NumText(_)
\* the decimal text of a natural number
NumText(i) ==
    IF i < Len(Digits)
    THEN <<Digits[i + 1]>>
    ELSE NumText(i \div Len(Digits)) \o <<Digits[(i % Len(Digits)) + 1]>>

(***************************************************************************)
(* The feedback_users table (the CREATE TABLE of the README).              *)
(***************************************************************************)
DomainColumns ==
    {"bus_number", "bus_line", "excessive_delay", "bus_overcrowded",
     "lack_of_accessibility", "air_conditioning_broken", "driver_misconduct",
     "route_change", "vehicle_poor_condition", "comment", "boarding_point",
     "occurrence_location", "overall_rating", "safety_rating",
     "improvement_suggestions"}

Columns == DomainColumns \cup {"id_feedback", "submission_datetime"}

NotNullColumns == {"id_feedback", "bus_number", "bus_line"}

\* INT and BOOLEAN (TINYINT(1)) columns
IntegerColumns ==
    {"id_feedback", "excessive_delay", "bus_overcrowded",
     "lack_of_accessibility", "air_conditioning_broken", "driver_misconduct",
     "route_change", "vehicle_poor_condition", "overall_rating",
     "safety_rating"}

\* VARCHAR and TEXT columns
TextColumns ==
    {"bus_number", "bus_line", "comment", "boarding_point",
     "occurrence_location", "improvement_suggestions"}

\* the driver's error messages
ErBadNull == "ER_BAD_NULL_ERROR: Column cannot be null"
ErTruncated == "ER_TRUNCATED_WRONG_VALUE: Incorrect value"
ErBadField == "ER_BAD_FIELD_ERROR: Unknown column"
ErDupEntry == "ER_DUP_ENTRY: Duplicate entry for key PRIMARY"
ErTimedOut == "connect ETIMEDOUT"

\* a statement's outcome apart from what it was asked: "" (it runs) or the
\* message of a driver failure (no connection, time out)
Faults == {"", ErTimedOut}

AllDigits(cs) == cs # <<>> /\ \A i \in 1..Len(cs) : IsDigit(cs[i])

\* The text of a datetime is "@" followed by its clock value.
IsDateText(cs) == Len(cs) > 1 /\ Head(cs) = "@" /\ AllDigits(Tail(cs))

Stored(v) == [ok |-> TRUE, v |-> v, msg |-> ""]
Refused(m) == [ok |-> FALSE, v |-> Null, msg |-> m]

\* What the store keeps in column c for the statement parameter v (strict
\* SQL mode): undefined and null are NULL; an integer column rounds a number
\* half up and takes true as 1, false as 0; a text column takes the text of
\* the value; the timestamp column takes a datetime text.
Coerce(c, v) ==
    IF v.t \in {"undefined", "null"}
    THEN IF c \in NotNullColumns THEN Refused(ErBadNull) ELSE Stored(Null)
    ELSE IF c \in IntegerColumns
    THEN CASE v.t = "number" ->
                Stored(Num(IF v.f >= 5 THEN v.n + 1 ELSE v.n))
           [] v.t = "boolean" -> Stored(Num(v.n))
           [] v.t = "string" /\ AllDigits(v.s) ->
                Stored(Num(DigitPrefix(v.s, 0)))
           [] OTHER -> Refused(ErTruncated)
    ELSE IF c \in TextColumns
    THEN CASE v.t = "string" -> Stored(v)
           [] v.t = "number" ->
                Stored(Str(IF v.f = 0 THEN NumText(v.n)
                           ELSE NumText(v.n) \o <<".">> \o NumText(v.f)))
           [] v.t = "boolean" -> Stored(Str(NumText(v.n)))
           [] OTHER -> Refused(ErTruncated)
    ELSE CASE v.t = "string" /\ IsDateText(v.s) ->
                Stored(Date(DigitPrefix(Tail(v.s), 0)))
           [] v.t = "date" -> Stored(v)
           [] OTHER -> Refused(ErTruncated)

\* the value of key k of the object o (undefined when o has no such key)
Get(o, k) == IF k \in DOMAIN o THEN o[k] ELSE Undefined

Max(a, b) == IF a > b THEN a ELSE b

RowsWithId(tbl, id) == {r \in tbl : r["id_feedback"] = Num(id)}

(***************************************************************************)
(* The statements, as the store executes them.  Each takes the table and   *)
(* gives [err, table, ...]: err is "" or the driver's message, table the   *)
(* table afterwards.                                                       *)
(***************************************************************************)
\* INSERT INTO feedback_users (the fifteen domain columns) VALUES (?, ...)
InsertStatement(tbl, counter, clock, values, fault) ==
    IF fault # ""
    THEN [err |-> fault, table |-> tbl, autoInc |-> counter, insertId |-> 0]
    ELSE Only({
        IF \E c \in DomainColumns : ~cv[c].ok
        THEN [err |-> cv[CHOOSE c \in DomainColumns : ~cv[c].ok].msg,
              table |-> tbl, autoInc |-> counter, insertId |-> 0]
        ELSE [err |-> "",
              table |-> tbl \cup
                  {[c \in Columns |->
                      IF c = "id_feedback" THEN Num(counter)
                      ELSE IF c = "submission_datetime" THEN Date(clock)
                      ELSE cv[c].v]},
              autoInc |-> counter + 1, insertId |-> counter]
        : cv \in {[c \in DomainColumns |-> Coerce(c, values[c])]}})

\* the timestamp a row is ordered by (NULL sorts below every timestamp)
SortKey(r) ==
    IF r["submission_datetime"].t = "date"
    THEN r["submission_datetime"].n
    ELSE 0 - 1

\* the orders ORDER BY submission_datetime DESC may return rows in: rows of
\* equal timestamp come in any order
DescendingOrders(rows) ==
    {q \in [1..Cardinality(rows) -> rows] :
        /\ \A i, j \in DOMAIN q : i # j => q[i] # q[j]
        /\ \A i, j \in DOMAIN q : i < j => SortKey(q[i]) >= SortKey(q[j])}

\* SelectAllStatement without its ORDER BY clause: the rows in any order
SelectAllStatementUnordered(tbl, fault) ==
    IF fault # ""
    THEN {[err |-> fault, rows |-> <<>>]}
    ELSE {[err |-> "", rows |-> q] :
            q \in {p \in [1..Cardinality(tbl) -> tbl] :
                      \A i, j \in DOMAIN p : i # j => p[i] # p[j]}}

\* SELECT * FROM feedback_users ORDER BY submission_datetime DESC
SelectAllStatement(tbl, fault) ==
    IF fault # ""
    THEN {[err |-> fault, rows |-> <<>>]}
    ELSE {[err |-> "", rows |-> q] : q \in DescendingOrders(tbl)}

\* SELECT * FROM feedback_users WHERE id_feedback = ?
SelectByIdStatement(tbl, id, fault) ==
    IF fault # ""
    THEN [err |-> fault, rows |-> <<>>]
    ELSE Only({[err |-> "",
                rows |-> IF found = {} THEN <<>> ELSE <<Only(found)>>]
               : found \in {RowsWithId(tbl, id)}})

\* UPDATE feedback_users SET `k1` = ?, ... WHERE id_feedback = ?
\* An unknown column fails the statement whatever the rows.  The matched
\* row takes the coerced values; the primary key stays unique; InnoDB moves
\* AUTO_INCREMENT past a larger id written by an update.  affectedRows
\* counts the matched rows when the connection has CLIENT_FOUND_ROWS, the
\* changed rows otherwise.
UpdateStatement(tbl, counter, found, id, sets, fault) ==
    IF fault # ""
    THEN [err |-> fault, table |-> tbl, autoInc |-> counter, affectedRows |-> 0]
    ELSE IF \E k \in DOMAIN sets : k \notin Columns
    THEN [err |-> ErBadField, table |-> tbl, autoInc |-> counter,
          affectedRows |-> 0]
    ELSE IF RowsWithId(tbl, id) = {}
    THEN [err |-> "", table |-> tbl, autoInc |-> counter, affectedRows |-> 0]
    ELSE Only({
        IF \E k \in DOMAIN sets : ~Coerce(k, sets[k]).ok
        THEN [err |-> Coerce(CHOOSE k \in DOMAIN sets : ~Coerce(k, sets[k]).ok,
                             sets[CHOOSE k \in DOMAIN sets :
                                      ~Coerce(k, sets[k]).ok]).msg,
              table |-> tbl, autoInc |-> counter, affectedRows |-> 0]
        ELSE Only({
            IF \E r \in tbl \ {old} : r["id_feedback"] = new["id_feedback"]
            THEN [err |-> ErDupEntry, table |-> tbl, autoInc |-> counter,
                  affectedRows |-> 0]
            ELSE [err |-> "",
                  table |-> (tbl \ {old}) \cup {new},
                  autoInc |-> Max(counter, new["id_feedback"].n + 1),
                  affectedRows |-> IF found \/ new # old THEN 1 ELSE 0]
            : new \in {[c \in Columns |->
                           IF c \in DOMAIN sets
                           THEN Coerce(c, sets[c]).v
                           ELSE old[c]]}})
        : old \in RowsWithId(tbl, id)})

\* DELETE FROM feedback_users WHERE id_feedback = ?
DeleteStatement(tbl, id, fault) ==
    IF fault # ""
    THEN [err |-> fault, table |-> tbl, affectedRows |-> 0]
    ELSE Only({[err |-> "", table |-> tbl \ found,
                affectedRows |-> Cardinality(found)]
               : found \in {RowsWithId(tbl, id)}})

(***************************************************************************)
(* The repository (feedbackModel.js).  A call gives [threw, message,       *)
(* logged, ...]: threw says that it threw an Error, message is that        *)
(* Error's message (a text is the sequence of its parts), logged what it   *)
(* wrote with console.error.                                               *)
(***************************************************************************)
\* criarFeedback with the two ratings in each other's place in values
criarFeedbackRatingsSwapped(tbl, counter, clock, newFeedbackData, fault) ==
    Only({[threw |-> r.err # "",
           message |-> IF r.err # ""
                       THEN <<"Erro ao salvar feedback no banco de dados: ",
                              r.err>>
                       ELSE <<>>,
           logged |-> IF r.err # "" THEN {r.err} ELSE {},
           insertId |-> r.insertId, table |-> r.table, autoInc |-> r.autoInc]
          : r \in {InsertStatement(tbl, counter, clock,
                       [c \in DomainColumns |->
                           IF c = "overall_rating"
                           THEN Get(newFeedbackData, "safety_rating")
                           ELSE IF c = "safety_rating"
                           THEN Get(newFeedbackData, "overall_rating")
                           ELSE Get(newFeedbackData, c)],
                       fault)}})

criarFeedback(tbl, counter, clock, newFeedbackData, fault) ==
    Only({[threw |-> r.err # "",
           message |-> IF r.err # ""
                       THEN <<"Erro ao salvar feedback no banco de dados: ",
                              r.err>>
                       ELSE <<>>,
           logged |-> IF r.err # "" THEN {r.err} ELSE {},
           insertId |-> r.insertId, table |-> r.table, autoInc |-> r.autoInc]
          : r \in {InsertStatement(tbl, counter, clock,
                       [c \in DomainColumns |-> Get(newFeedbackData, c)],
                       fault)}})

\* the results listarFeedbacks may give (one for each order of the rows)
listarFeedbacks(tbl, fault) ==
    {[threw |-> r.err # "",
      message |-> IF r.err # ""
                  THEN <<"Erro ao buscar feedbacks no banco de dados: ", r.err>>
                  ELSE <<>>,
      logged |-> IF r.err # "" THEN {r.err} ELSE {},
      rows |-> r.rows] : r \in SelectAllStatement(tbl, fault)}

\* buscarFeedbackPorId throwing where the statement gives no row
buscarFeedbackPorIdThrowing(tbl, id, fault) ==
    Only({[threw |-> r.err # "" \/ Len(r.rows) = 0,
           message |-> IF r.err # ""
                       THEN <<"Erro ao buscar feedback por ID no banco de dados: ",
                              r.err>>
                       ELSE IF Len(r.rows) = 0
                       THEN <<"Erro ao buscar feedback por ID no banco de dados: ",
                              "nenhum registro">>
                       ELSE <<>>,
           logged |-> IF r.err # "" THEN {r.err} ELSE {},
           rows |-> IF Len(r.rows) > 0 THEN <<r.rows[1]>> ELSE <<>>]
          : r \in {SelectByIdStatement(tbl, id, fault)}})

\* rows is <<>> for null, <<row>> for a record
buscarFeedbackPorId(tbl, id, fault) ==
    Only({[threw |-> r.err # "",
           message |-> IF r.err # ""
                       THEN <<"Erro ao buscar feedback por ID no banco de dados: ",
                              r.err>>
                       ELSE <<>>,
           logged |-> IF r.err # "" THEN {r.err} ELSE {},
           rows |-> IF Len(r.rows) > 0 THEN <<r.rows[1]>> ELSE <<>>]
          : r \in {SelectByIdStatement(tbl, id, fault)}})

\* atualizarFeedback with a SET clause of one of the supplied fields only
atualizarFeedbackOneField(tbl, counter, found, id, feedbackData, fault) ==
    IF Cardinality(DOMAIN feedbackData) = 0
    THEN [threw |-> FALSE, message |-> <<>>, logged |-> {},
          affectedRows |-> 0, table |-> tbl, autoInc |-> counter, stmts |-> 0]
    ELSE Only({[threw |-> r.err # "",
                message |-> IF r.err # ""
                            THEN <<"Erro ao atualizar feedback no banco de dados: ",
                                   r.err>>
                            ELSE <<>>,
                logged |-> IF r.err # "" THEN {r.err} ELSE {},
                affectedRows |-> r.affectedRows, table |-> r.table,
                autoInc |-> r.autoInc, stmts |-> 1]
               : r \in {UpdateStatement(tbl, counter, found, id,
                            [k \in {CHOOSE k \in DOMAIN feedbackData : TRUE}
                                |-> feedbackData[k]],
                            fault)}})

\* stmts: the statements it sent (none for an empty feedbackData)
atualizarFeedback(tbl, counter, found, id, feedbackData, fault) ==
    IF Cardinality(DOMAIN feedbackData) = 0
    THEN [threw |-> FALSE, message |-> <<>>, logged |-> {},
          affectedRows |-> 0, table |-> tbl, autoInc |-> counter, stmts |-> 0]
    ELSE Only({[threw |-> r.err # "",
                message |-> IF r.err # ""
                            THEN <<"Erro ao atualizar feedback no banco de dados: ",
                                   r.err>>
                            ELSE <<>>,
                logged |-> IF r.err # "" THEN {r.err} ELSE {},
                affectedRows |-> r.affectedRows, table |-> r.table,
                autoInc |-> r.autoInc, stmts |-> 1]
               : r \in {UpdateStatement(tbl, counter, found, id, feedbackData,
                                        fault)}})

deletarFeedback(tbl, id, fault) ==
    Only({[threw |-> r.err # "",
           message |-> IF r.err # ""
                       THEN <<"Erro ao deletar feedback no banco de dados: ",
                              r.err>>
                       ELSE <<>>,
           logged |-> IF r.err # "" THEN {r.err} ELSE {},
           affectedRows |-> r.affectedRows, table |-> r.table]
          : r \in {DeleteStatement(tbl, id, fault)}})

(***************************************************************************)
(* The error middleware (app.js) and the handlers' catch blocks.           *)
(***************************************************************************)
\* an Error: status 0 stands for an Error without a status property
Error(status, message) == [status |-> status, message |-> message]

\* res.status(err.status || 500).json({message: err.message || ...})
ErrorMiddleware(err) ==
    [status |-> IF err.status # 0 THEN err.status ELSE 500,
     message |-> IF err.message # <<>>
                 THEN err.message
                 ELSE <<"Ocorreu um erro interno no servidor.">>]

\* what a handler's catch block and the middleware write to the console
ErrorLog(err) == {err.message[i] : i \in DOMAIN err.message}

(***************************************************************************)
(* The handlers (feedbackController.js).  A handler gives the response     *)
(* [status, message, id, rows] (message, id and rows are the fields of the *)
(* JSON body: rows is <<>> where the body carries null or no record), the  *)
(* number of statements it sent (stmts), what went to the console (logged) *)
(* and the table afterwards.                                               *)
(***************************************************************************)
\* catch (error) { console.error(..., error.message); next(error); }
Caught(err, stmts, logged, tbl, counter) ==
    [status |-> ErrorMiddleware(err).status,
     message |-> ErrorMiddleware(err).message,
     id |-> 0, rows |-> <<>>, stmts |-> stmts,
     logged |-> logged \cup ErrorLog(err),
     table |-> tbl, autoInc |-> counter]

\* res.status(status).json(...)
Sent(status, message, id, rows, stmts, tbl, counter) ==
    [status |-> status, message |-> message, id |-> id, rows |-> rows,
     stmts |-> stmts, logged |-> {}, table |-> tbl, autoInc |-> counter]

\* NotText without the trim: a text of white space passes
NotTextUntrimmed(v) == Falsy(v) \/ TypeOf(v) # "string"

\* !x || typeof x !== 'string' || x.trim() === ''
NotText(v) == Falsy(v) \/ TypeOf(v) # "string" \/ Trim(v.s) = <<>>

\* x === undefined || typeof x !== 'number'
NotNumber(v) == v.t = "undefined" \/ TypeOf(v) # "number"

requiredRatings == <<"overall_rating", "safety_rating">>

\* CreateValidation with the test of bus_line before that of bus_number
CreateValidationLineFirst(feedbackData) ==
    IF NotText(Get(feedbackData, "bus_line"))
    THEN <<"O campo \"bus_line\" (Linha do onibus) e obrigatorio e deve ser um texto nao vazio.">>
    ELSE IF NotText(Get(feedbackData, "bus_number"))
    THEN <<"O campo \"bus_number\" (Numero do onibus) e obrigatorio e deve ser um texto nao vazio.">>
    ELSE IF \E i \in DOMAIN requiredRatings :
                NotNumber(Get(feedbackData, requiredRatings[i]))
    THEN <<"O campo \"",
           requiredRatings[CHOOSE j \in DOMAIN requiredRatings :
               /\ NotNumber(Get(feedbackData, requiredRatings[j]))
               /\ \A k \in 1..(j - 1) :
                      ~NotNumber(Get(feedbackData, requiredRatings[k]))],
           "\" e obrigatorio e deve ser um numero.">>
    ELSE <<>>

\* the message of the first validation rule of criarNovoFeedback that the
\* body fails (<<>>: it passes them all)
CreateValidation(feedbackData) ==
    IF NotText(Get(feedbackData, "bus_number"))
    THEN <<"O campo \"bus_number\" (Numero do onibus) e obrigatorio e deve ser um texto nao vazio.">>
    ELSE IF NotText(Get(feedbackData, "bus_line"))
    THEN <<"O campo \"bus_line\" (Linha do onibus) e obrigatorio e deve ser um texto nao vazio.">>
    ELSE IF \E i \in DOMAIN requiredRatings :
                NotNumber(Get(feedbackData, requiredRatings[i]))
    THEN <<"O campo \"",
           requiredRatings[CHOOSE j \in DOMAIN requiredRatings :
               /\ NotNumber(Get(feedbackData, requiredRatings[j]))
               /\ \A k \in 1..(j - 1) :
                      ~NotNumber(Get(feedbackData, requiredRatings[k]))],
           "\" e obrigatorio e deve ser um numero.">>
    ELSE <<>>

criarNovoFeedback(tbl, counter, clock, feedbackData, fault) ==
    IF CreateValidation(feedbackData) # <<>>
    THEN Caught(Error(400, CreateValidation(feedbackData)), 0, {}, tbl, counter)
    ELSE Only({
        IF r.threw
        THEN Caught(Error(0, r.message), 1, r.logged, tbl, counter)
        ELSE Sent(201, <<"Feedback criado com sucesso!">>, r.insertId, <<>>,
                  1, r.table, r.autoInc)
        : r \in {criarFeedback(tbl, counter, clock, feedbackData, fault)}})

\* the responses obterTodosFeedbacks may give
obterTodosFeedbacks(tbl, counter, fault) ==
    {IF r.threw
     THEN Caught(Error(0, r.message), 1, r.logged, tbl, counter)
     ELSE Sent(200, <<>>, 0, r.rows, 1, tbl, counter)
     : r \in listarFeedbacks(tbl, fault)}

\* isNaN(id) || id <= 0, for id = parseInt(req.params.id, 10)
InvalidId(id) == id.nan \/ id.v <= 0

obterFeedbackPorId(tbl, counter, path, fault) ==
    Only({
        IF InvalidId(id)
        THEN Caught(Error(400, <<"O ID fornecido na URL e invalido. Deve ser um numero inteiro positivo.">>),
                    0, {}, tbl, counter)
        ELSE Only({
            IF r.threw
            THEN Caught(Error(0, r.message), 1, r.logged, tbl, counter)
            ELSE IF r.rows # <<>>
            THEN Sent(200, <<>>, 0, r.rows, 1, tbl, counter)
            ELSE Caught(Error(404, <<"Feedback com ID ">> \o NumText(id.v)
                                       \o <<" nao encontrado.">>),
                        1, {}, tbl, counter)
            : r \in {buscarFeedbackPorId(tbl, id.v, fault)}})
        : id \in {ParseInt(path)}})

\* atualizarUmFeedback without the test of Object.keys(feedbackData).length
atualizarUmFeedbackAnyBody(tbl, counter, found, path, feedbackData, fault) ==
    Only({
        IF InvalidId(id)
        THEN [done |-> TRUE, affectedRows |-> 0,
              res |-> Caught(Error(400, <<"O ID fornecido na URL para atualizacao e invalido.">>),
                             0, {}, tbl, counter)]
        ELSE Only({
            IF r.threw
            THEN [done |-> TRUE, affectedRows |-> 0,
                  res |-> Caught(Error(0, r.message), r.stmts, r.logged, tbl,
                                 counter)]
            ELSE [done |-> FALSE, affectedRows |-> r.affectedRows,
                  res |-> Sent(0, <<>>, 0, <<>>, r.stmts, r.table, r.autoInc)]
            : r \in {atualizarFeedback(tbl, counter, found, id.v,
                                       feedbackData, fault)}})
        : id \in {ParseInt(path)}})

\* atualizarUmFeedback with a failed UPDATE statement taken as one that
\* affected no row: the handler goes on to its follow-up read
atualizarUmFeedbackGoesOn(tbl, counter, found, path, feedbackData, fault) ==
    Only({
        IF InvalidId(id)
        THEN [done |-> TRUE, affectedRows |-> 0,
              res |-> Caught(Error(400, <<"O ID fornecido na URL para atualizacao e invalido.">>),
                             0, {}, tbl, counter)]
        ELSE IF Cardinality(DOMAIN feedbackData) = 0
        THEN [done |-> TRUE, affectedRows |-> 0,
              res |-> Caught(Error(400, <<"Nenhum dado foi fornecido no corpo da requisicao para atualizacao.">>),
                             0, {}, tbl, counter)]
        ELSE Only({
            [done |-> FALSE,
             affectedRows |-> IF r.threw THEN 0 ELSE r.affectedRows,
             res |-> [Sent(0, <<>>, 0, <<>>, r.stmts, r.table, r.autoInc)
                         EXCEPT !.logged = r.logged]]
            : r \in {atualizarFeedback(tbl, counter, found, id.v,
                                       feedbackData, fault)}})
        : id \in {ParseInt(path)}})

\* atualizarUmFeedback up to the end of its first await: either it has
\* answered (done) or it goes on with affectedRows
atualizarUmFeedback(tbl, counter, found, path, feedbackData, fault) ==
    Only({
        IF InvalidId(id)
        THEN [done |-> TRUE, affectedRows |-> 0,
              res |-> Caught(Error(400, <<"O ID fornecido na URL para atualizacao e invalido.">>),
                             0, {}, tbl, counter)]
        ELSE IF Cardinality(DOMAIN feedbackData) = 0
        THEN [done |-> TRUE, affectedRows |-> 0,
              res |-> Caught(Error(400, <<"Nenhum dado foi fornecido no corpo da requisicao para atualizacao.">>),
                             0, {}, tbl, counter)]
        ELSE Only({
            IF r.threw
            THEN [done |-> TRUE, affectedRows |-> 0,
                  res |-> Caught(Error(0, r.message), r.stmts, r.logged, tbl,
                                 counter)]
            ELSE [done |-> FALSE, affectedRows |-> r.affectedRows,
                  res |-> Sent(0, <<>>, 0, <<>>, r.stmts, r.table, r.autoInc)]
            : r \in {atualizarFeedback(tbl, counter, found, id.v,
                                       feedbackData, fault)}})
        : id \in {ParseInt(path)}})

\* atualizarUmFeedbackResume without the test of feedbackExistente
atualizarUmFeedbackResumeUntested(tbl, counter, id, affectedRows, fault) ==
    Only({
        IF r.threw
        THEN Caught(Error(0, r.message), 2, r.logged, tbl, counter)
        ELSE IF affectedRows > 0
        THEN Sent(200, <<"Feedback com ID ">> \o NumText(id)
                        \o <<" atualizado com sucesso.">>,
                  0, r.rows, 2, tbl, counter)
        ELSE Sent(200, <<"Nenhuma alteracao aplicada ao feedback com ID ">>
                        \o NumText(id)
                        \o <<". Os dados podem ser os mesmos ja existentes.">>,
                  0, r.rows, 2, tbl, counter)
        : r \in {buscarFeedbackPorId(tbl, id, fault)}})

\* atualizarUmFeedback from its first await on: the follow-up read and the
\* answer
atualizarUmFeedbackResume(tbl, counter, id, affectedRows, fault) ==
    Only({
        IF r.threw
        THEN Caught(Error(0, r.message), 2, r.logged, tbl, counter)
        ELSE IF affectedRows > 0
        THEN Sent(200, <<"Feedback com ID ">> \o NumText(id)
                        \o <<" atualizado com sucesso.">>,
                  0, r.rows, 2, tbl, counter)
        ELSE IF r.rows = <<>>
        THEN Caught(Error(404, <<"Feedback com ID ">> \o NumText(id)
                                   \o <<" nao encontrado para atualizacao.">>),
                    2, {}, tbl, counter)
        ELSE Sent(200, <<"Nenhuma alteracao aplicada ao feedback com ID ">>
                        \o NumText(id)
                        \o <<". Os dados podem ser os mesmos ja existentes.">>,
                  0, r.rows, 2, tbl, counter)
        : r \in {buscarFeedbackPorId(tbl, id, fault)}})

\* deletarUmFeedback taking one affected row for none
deletarUmFeedbackMiscounted(tbl, counter, path, fault) ==
    Only({
        IF InvalidId(id)
        THEN Caught(Error(400, <<"O ID fornecido na URL para delecao e invalido.">>),
                    0, {}, tbl, counter)
        ELSE Only({
            IF r.threw
            THEN Caught(Error(0, r.message), 1, r.logged, tbl, counter)
            ELSE IF r.affectedRows > 1
            THEN Sent(200, <<"Feedback com ID ">> \o NumText(id.v)
                            \o <<" deletado com sucesso.">>,
                      0, <<>>, 1, r.table, counter)
            ELSE Caught(Error(404, <<"Feedback com ID ">> \o NumText(id.v)
                                       \o <<" nao encontrado para delecao.">>),
                        1, {}, r.table, counter)
            : r \in {deletarFeedback(tbl, id.v, fault)}})
        : id \in {ParseInt(path)}})

deletarUmFeedback(tbl, counter, path, fault) ==
    Only({
        IF InvalidId(id)
        THEN Caught(Error(400, <<"O ID fornecido na URL para delecao e invalido.">>),
                    0, {}, tbl, counter)
        ELSE Only({
            IF r.threw
            THEN Caught(Error(0, r.message), 1, r.logged, tbl, counter)
            ELSE IF r.affectedRows > 0
            THEN Sent(200, <<"Feedback com ID ">> \o NumText(id.v)
                            \o <<" deletado com sucesso.">>,
                      0, <<>>, 1, r.table, counter)
            ELSE Caught(Error(404, <<"Feedback com ID ">> \o NumText(id.v)
                                       \o <<" nao encontrado para delecao.">>),
                        1, {}, tbl, counter)
            : r \in {deletarFeedback(tbl, id.v, fault)}})
        : id \in {ParseInt(path)}})

(***************************************************************************)
(* The requests.                                                           *)
(***************************************************************************)
EmptyObject == [k \in {} |-> Undefined]

With(o, k, v) == [x \in DOMAIN o \cup {k} |-> IF x = k THEN v ELSE o[x]]

Without(o, k) == [x \in DOMAIN o \ {k} |-> o[x]]

RequiredFields == {"bus_number", "bus_line", "overall_rating", "safety_rating"}

\* the creation payload of the README: {bus_number: "X1", bus_line: "101",
\* overall_rating: 4, safety_rating: 5}
BasePayload ==
    [k \in RequiredFields |->
        CASE k = "bus_number" -> Str(<<"X", "1">>)
          [] k = "bus_line" -> Str(<<"1", "0", "1">>)
          [] k = "overall_rating" -> Num(4)
          [] OTHER -> Num(5)]

\* values that are no non-empty text, values that are no number
NoTexts == {Str(<<>>), Str(<<" ">>), Num(7)}
NoNumbers == {Str(<<"4">>)}

\* The bodies of POST /feedbacks: the base payload; the base payload with a
\* complaint flag and a rating that is no integer; the base payload with
\* one or two required fields missing or ill-typed; the empty object.
CreateBodies ==
    {BasePayload,
     With(With(BasePayload, "excessive_delay", Bool(TRUE)),
          "overall_rating", Frac(4, 5)),
     EmptyObject}
    \cup {Without(BasePayload, k) : k \in RequiredFields}
    \cup {With(BasePayload, k, v) : k \in {"bus_number", "bus_line"}, v \in NoTexts}
    \cup {With(BasePayload, k, v) :
            k \in {"overall_rating", "safety_rating"}, v \in NoNumbers}
    \cup {Without(With(BasePayload, "bus_number", Str(<<>>)), "bus_line"),
          Without(With(BasePayload, "bus_line", Num(7)), "overall_rating"),
          Without(With(BasePayload, "overall_rating", Str(<<"4">>)),
                  "safety_rating")}

\* The bodies of PUT /feedbacks/:id.
UpdateBodies ==
    {EmptyObject,
     With(EmptyObject, "comment", Str(<<"n", "o", "i", "s", "y">>)),
     With(EmptyObject, "bus_number", Str(<<>>)),
     With(EmptyObject, "bus_number", Null),
     With(With(EmptyObject, "excessive_delay", Bool(TRUE)),
          "overall_rating", Frac(4, 5)),
     With(EmptyObject, "submission_datetime", Str(<<"@", "0">>)),
     With(EmptyObject, "bogus", Num(1))}
    \cup {With(EmptyObject, "id_feedback", Num(k)) : k \in 1..MaxId}

\* The :id path parameters: the ids the table can hold and one more, and
\* texts that are no positive integer.
Paths ==
    {NumText(k) : k \in 1..(MaxId + 1)}
    \cup {<<"a", "b", "c">>, <<"0">>, <<"-", "1">>, <<"1", ".", "5">>,
          <<"1", "a", "b", "c">>}

(***************************************************************************)
(* The state machine.                                                      *)
(***************************************************************************)
\* resp: the request (op, path, body) and its response (status, message,
\* id, rows), with the statements the request sent (stmts) and what it
\* wrote to the console (logged).  The path of an update request that has
\* passed its first await is the text of its parsed id.  old is what its
\* UPDATE statement found under the id (<<>> or <<row>>) and dirty says
\* that another request changed the table between its two statements.
NoResp ==
    [op |-> "none", path |-> <<>>, body |-> EmptyObject, status |-> 0,
     message |-> <<>>, id |-> 0, rows |-> <<>>, stmts |-> 0, logged |-> {},
     old |-> <<>>, dirty |-> FALSE]

Answer(op, path, body, res, logged, old, dirty) ==
    [op |-> op, path |-> path, body |-> body, status |-> res.status,
     message |-> res.message, id |-> res.id, rows |-> res.rows,
     stmts |-> res.stmts, logged |-> logged \cup res.logged, old |-> old,
     dirty |-> dirty]

\* pending: what an update request holds across its first await (id,
\* feedbackData, affectedRows), with old and dirty as in resp
NoPending ==
    [active |-> FALSE, id |-> 0, body |-> EmptyObject,
     affectedRows |-> 0, logged |-> {}, old |-> <<>>, dirty |-> FALSE]

\* the update requests in flight see that the table has changed
Dirtied(p, tbl) ==
    [c \in Conns |->
        IF p[c].active /\ tbl # table
        THEN [p[c] EXCEPT !.dirty = TRUE]
        ELSE p[c]]

Init ==
    /\ table = {}
    /\ autoInc = 1
    /\ now = 1
    /\ pending = [c \in Conns |-> NoPending]
    /\ resp = NoResp
    /\ deleted = {}

\* POST /feedbacks
Create ==
    /\ resp = NoResp
    /\ autoInc <= MaxId
    /\ \E body \in CreateBodies, fault \in Faults :
        \E res \in {criarNovoFeedback(table, autoInc, now, body, fault)} :
            /\ table' = res.table
            /\ autoInc' = res.autoInc
            /\ resp' = Answer("create", <<>>, body, res, {}, <<>>, FALSE)
            /\ pending' = Dirtied(pending, res.table)
    /\ UNCHANGED <<now, deleted>>

\* No update request is between its statements.  A read leaves the table
\* as it is and an update request reads the table at its statements only,
\* so a read between the two statements of an update request is answered
\* as after them: the reads are taken when Quiet.
Quiet == \A c \in Conns : ~pending[c].active

\* GET /feedbacks
List ==
    /\ resp = NoResp
    /\ Quiet
    /\ \E fault \in Faults :
        \E res \in obterTodosFeedbacks(table, autoInc, fault) :
            resp' = Answer("list", <<>>, EmptyObject, res, {}, <<>>, FALSE)
    /\ UNCHANGED <<table, autoInc, now, pending, deleted>>

\* GET /feedbacks/:id
GetById ==
    /\ resp = NoResp
    /\ Quiet
    /\ \E path \in Paths, fault \in Faults :
        resp' = Answer("get", path, EmptyObject,
                       obterFeedbackPorId(table, autoInc, path, fault),
                       {}, <<>>, FALSE)
    /\ UNCHANGED <<table, autoInc, now, pending, deleted>>

\* the row the UPDATE statement of a request for path finds, as <<>> or <<row>>
FoundBy(tbl, path) ==
    IF InvalidId(ParseInt(path)) \/ RowsWithId(tbl, ParseInt(path).v) = {}
    THEN <<>>
    ELSE <<Only(RowsWithId(tbl, ParseInt(path).v))>>

\* PUT /feedbacks/:id, to the end of the UPDATE statement.  The driver's
\* CLIENT_FOUND_ROWS flag is not set by database.js: the statement is taken
\* both ways.
Update(c) ==
    /\ resp = NoResp
    /\ ~pending[c].active
    /\ \E path \in Paths, body \in UpdateBodies, fault \in Faults,
          found \in BOOLEAN :
        \E h \in {atualizarUmFeedback(table, autoInc, found, path, body,
                                      fault)} :
            /\ table' = h.res.table
            /\ autoInc' = h.res.autoInc
            /\ resp' = IF h.done
                       THEN Answer("update", path, body, h.res, {},
                                   FoundBy(table, path), FALSE)
                       ELSE NoResp
            /\ pending' =
                 [Dirtied(pending, h.res.table) EXCEPT
                    ![c] = IF h.done THEN NoPending
                           ELSE [active |-> TRUE,
                                 id |-> ParseInt(path).v, body |-> body,
                                 affectedRows |-> h.affectedRows,
                                 logged |-> h.res.logged,
                                 old |-> FoundBy(table, path),
                                 dirty |-> FALSE]]
    /\ UNCHANGED <<now, deleted>>

\* PUT /feedbacks/:id, from the follow-up SELECT to the response
UpdateResume(c) ==
    /\ resp = NoResp
    /\ pending[c].active
    /\ \E fault \in Faults :
        resp' = Answer("update", NumText(pending[c].id), pending[c].body,
                       atualizarUmFeedbackResume(table, autoInc,
                           pending[c].id, pending[c].affectedRows, fault),
                       pending[c].logged, pending[c].old, pending[c].dirty)
    /\ pending' = [pending EXCEPT ![c] = NoPending]
    /\ UNCHANGED <<table, autoInc, now, deleted>>

\* DELETE /feedbacks/:id
Delete ==
    /\ resp = NoResp
    /\ \E path \in Paths, fault \in Faults :
        \E res \in {deletarUmFeedback(table, autoInc, path, fault)} :
            /\ table' = res.table
            /\ resp' = Answer("delete", path, EmptyObject, res, {}, <<>>, FALSE)
            /\ deleted' = IF res.status = 200
                          THEN deleted \cup {ParseInt(path).v}
                          ELSE deleted
            /\ pending' = Dirtied(pending, res.table)
    /\ UNCHANGED <<autoInc, now>>

\* The store's clock advances.  Only the order of the timestamps shows, so
\* it advances once it has stamped a row of the table.
Tick ==
    /\ resp = NoResp
    /\ \E r \in table : r["submission_datetime"] = Date(now)
    /\ now' = now + 1
    /\ UNCHANGED <<table, autoInc, pending, resp, deleted>>

\* The response has left: the server keeps nothing of the request.
Deliver ==
    /\ resp # NoResp
    /\ resp' = NoResp
    /\ UNCHANGED <<table, autoInc, now, pending, deleted>>

Next ==
    \/ Create
    \/ List
    \/ GetById
    \/ \E c \in Conns : Update(c)
    \/ \E c \in Conns : UpdateResume(c)
    \/ Delete
    \/ Tick
    \/ Deliver

Spec == Init /\ [][Next]_vars

(***************************************************************************)
(* The properties.                                                         *)
(***************************************************************************)
\* the messages of the driver
DriverMessages == {ErBadNull, ErTruncated, ErBadField, ErDupEntry, ErTimedOut}

\* a statement of the request answered by r has failed
StatementFailed(r) == r.logged \cap DriverMessages # {}

\* the text is the decimal numeral of a positive integer
PositiveInteger(cs) == AllDigits(cs) /\ DigitPrefix(cs, 0) > 0

\* the "no change" message of an update
NoChangeMessage(m) ==
    m # <<>> /\ m[1] = "Nenhuma alteracao aplicada ao feedback com ID "

\* C1: an update never changes the id or the submission timestamp of a
\* record: in every step, each record of the table is still there with the
\* id and the timestamp it had, unless the step is a delete.
C1_UpdateKeepsIdAndTimestamp ==
    [][\A r \in table :
          \/ resp'.op = "delete"
          \/ \E q \in table' :
                /\ q["id_feedback"] = r["id_feedback"]
                /\ q["submission_datetime"] = r["submission_datetime"]]_vars

\* C2: the message of a response holds no message of the driver.
C2_ResponseHidesDriverMessage ==
    \A i \in DOMAIN resp.message : resp.message[i] \notin DriverMessages

\* a required text of a creation body is missing, no string, empty or white
\* space only; a required rating is missing or no number
BadText(body, k) ==
    \/ k \notin DOMAIN body
    \/ body[k].t # "string"
    \/ \A i \in DOMAIN body[k].s : body[k].s[i] \in WhiteSpace
BadRating(body, k) == k \notin DOMAIN body \/ body[k].t # "number"
BadCreateBody(body) ==
    \/ BadText(body, "bus_number")
    \/ BadText(body, "bus_line")
    \/ BadRating(body, "overall_rating")
    \/ BadRating(body, "safety_rating")

\* C3: a create request whose bus_number or bus_line is missing, empty,
\* white space only or no string, or whose overall_rating or safety_rating
\* is missing or no number, is answered 400, sends no statement and leaves
\* the table and its id counter as they are.
C3_BadCreateRejected ==
    [][(resp'.op = "create" /\ BadCreateBody(resp'.body)) =>
          /\ resp'.status = 400
          /\ resp'.stmts = 0
          /\ table' = table
          /\ autoInc' = autoInc]_vars

C3_Witness ==
    /\ resp.op = "create"
    /\ resp.status = 400
    /\ resp.stmts = 0
    /\ "bus_number" \in DOMAIN resp.body
    /\ resp.body["bus_number"] = Str(<<" ">>)
    /\ table # {}

\* the record getById gives for the id of the create response, read right
\* after the create (<<>> when there is none)
ReadBack == buscarFeedbackPorId(table, resp.id, "").rows

\* the id and the timestamp of the record read back are assigned by the
\* system and the id is that of no other record
SystemAssigned ==
    /\ ReadBack[1]["id_feedback"] = Num(resp.id)
    /\ resp.id > 0
    /\ autoInc > resp.id
    /\ ReadBack[1]["submission_datetime"] = Date(now)
    /\ \A o \in table \ {ReadBack[1]} :
          o["id_feedback"] # ReadBack[1]["id_feedback"]

\* C4 as stated: after a create answered 201, getById of the new id gives a
\* record whose fifteen domain fields equal the input (null where the input
\* has none), with a system-assigned id and timestamp and an id of its own.
C4_ReadBackEqualsInput ==
    (resp.op = "create" /\ resp.status = 201) =>
        /\ ReadBack # <<>>
        /\ \A c \in DomainColumns :
              ReadBack[1][c] = IF c \in DOMAIN resp.body
                               THEN resp.body[c] ELSE Null
        /\ SystemAssigned

\* C4: after a create answered 201, getById of the new id gives a record
\* whose fifteen domain fields hold the input as the store keeps it in the
\* type of the column (true/false as 1/0, a number rounded to an integer in
\* an integer column, null where the input has none), with a
\* system-assigned id and timestamp and an id of its own.
C4_ReadBackEqualsStoredInput ==
    (resp.op = "create" /\ resp.status = 201) =>
        /\ ReadBack # <<>>
        /\ \A c \in DomainColumns :
              /\ Coerce(c, Get(resp.body, c)).ok
              /\ ReadBack[1][c] = Coerce(c, Get(resp.body, c)).v
        /\ SystemAssigned

C4_Witness ==
    /\ resp.op = "create"
    /\ resp.status = 201
    /\ "excessive_delay" \in DOMAIN resp.body
    /\ Cardinality(table) = 2
    /\ ReadBack # <<>>
    /\ ReadBack[1]["excessive_delay"] = Num(1)
    /\ ReadBack[1]["comment"] = Null

\* C5: a get, update or delete request whose path identifier is no positive
\* integer is answered 400 and sends no statement.
C5_BadIdRejected ==
    (resp.op \in {"get", "update", "delete"} /\ ~PositiveInteger(resp.path)) =>
        (resp.status = 400 /\ resp.stmts = 0)

\* the update request answered by r was for an existing record and every
\* field it supplied had the value the record held
IdenticalUpdate(r) ==
    /\ r.op = "update"
    /\ PositiveInteger(r.path)
    /\ r.old # <<>>
    /\ DOMAIN r.body # {}
    /\ DOMAIN r.body \subseteq DomainColumns
    /\ \A k \in DOMAIN r.body : r.body[k] = r.old[1][k]

\* C6: an update request for an existing record whose supplied fields all
\* have the record's values, no statement of which failed, is answered 200
\* with the "no change" message and the record, and the record is as it was.
C6_IdenticalUpdateSaysNoChange ==
    (IdenticalUpdate(resp) /\ ~StatementFailed(resp)) =>
        /\ resp.status = 200
        /\ NoChangeMessage(resp.message)
        /\ resp.rows = resp.old
        /\ resp.old[1] \in table

\* the update request answered by r had a valid id that matched no record
\* at its UPDATE statement, and a body that was not empty
UpdateOfMissing(r) ==
    /\ r.op = "update"
    /\ PositiveInteger(r.path)
    /\ r.old = <<>>
    /\ DOMAIN r.body # {}

\* C7 as stated: an update request with a valid id that matches no record
\* and a body that is not empty, no statement of which failed, is answered
\* 404.
C7_UpdateOfMissingIs404 ==
    (UpdateOfMissing(resp) /\ ~StatementFailed(resp)) => resp.status = 404

\* C7: an update request with a valid id that matches no record and a body
\* that is not empty gets 0 affected rows and its UPDATE statement leaves
\* the table as it is; it is answered 404, or 500 when one of its
\* statements failed, or 200 with the "no change" message and a record when
\* another request changed the table before its follow-up read.
C7_UpdateOfMissingChangesNothing ==
    [][/\ \A c \in Conns :
            (/\ ~pending[c].active
             /\ pending'[c].active
             /\ pending'[c].old = <<>>) =>
                /\ pending'[c].affectedRows = 0
                /\ table' = table
                /\ autoInc' = autoInc
       /\ UpdateOfMissing(resp') =>
            /\ table' = table
            /\ \/ resp'.status = 404 /\ ~StatementFailed(resp')
               \/ resp'.status = 500 /\ StatementFailed(resp')
               \/ /\ resp'.status = 200
                  /\ resp'.dirty
                  /\ NoChangeMessage(resp'.message)
                  /\ resp'.rows # <<>>
                  /\ resp'.rows[1] \in table']_vars

C7_Witness ==
    /\ UpdateOfMissing(resp)
    /\ resp.status = 404
    /\ resp.stmts = 2
    /\ table # {}

\* C8: the id of a delete answered 200 is the id of no record of the table
\* from then on.
C8_DeletedStaysDeleted == \A id \in deleted : RowsWithId(table, id) = {}

\* the update request answered by r was for an existing record, supplied
\* domain fields only and was answered 200
PartialUpdate(r) ==
    /\ r.op = "update"
    /\ r.status = 200
    /\ r.old # <<>>
    /\ DOMAIN r.body \subseteq DomainColumns

\* the record old with the fields of body as the store keeps them
Updated(old, body) ==
    [c \in Columns |->
        IF c \in DOMAIN body THEN Coerce(c, body[c]).v ELSE old[c]]

FailedStatement(r) ==
    IF r.op = "update"
       /\ r.message[1] = "Erro ao buscar feedback por ID no banco de dados: "
    THEN 2 ELSE 1

\* C10: a request a statement of which failed is answered 500 with a
\* message, has sent no statement after the failed one, and no request goes
\* on after a statement of it failed.
C10_FailureAnsweredOnce ==
    /\ StatementFailed(resp) =>
          /\ resp.status = 500
          /\ resp.message # <<>>
          /\ resp.stmts = FailedStatement(resp)
    /\ \A c \in Conns :
          pending[c].active => pending[c].logged \cap DriverMessages = {}

C10_Witness ==
    /\ resp.op = "update"
    /\ StatementFailed(resp)
    /\ resp.status = 500
    /\ resp.stmts = 2
    /\ resp.old # <<>>

\* the repository's update of id with no field, on the table as it is
EmptyUpdate(id, found, fault) ==
    atualizarFeedback(table, autoInc, found, id, EmptyObject, fault)

\* C11: the repository's update with an empty field set gives 0 affected
\* rows, sends no statement (so it cannot fail) and leaves the table as it
\* is, whatever the id; an update request whose body has no field is
\* answered 400 with no statement sent and the table as it was.
C11_EmptyUpdateRefused ==
    [][/\ \A id \in 1..(MaxId + 1), found \in BOOLEAN, fault \in Faults :
            \E r \in {EmptyUpdate(id, found, fault)} :
                /\ ~r.threw
                /\ r.affectedRows = 0
                /\ r.stmts = 0
                /\ r.table = table
                /\ r.autoInc = autoInc
       /\ (resp'.op = "update" /\ DOMAIN resp'.body = {}) =>
            /\ resp'.status = 400
            /\ resp'.stmts = 0
            /\ ~StatementFailed(resp')
            /\ table' = table
            /\ autoInc' = autoInc
            /\ pending' = pending]_vars

C11_Witness ==
    /\ resp.op = "update"
    /\ DOMAIN resp.body = {}
    /\ PositiveInteger(resp.path)
    /\ resp.old # <<>>
    /\ resp.status = 400
    /\ resp.message = <<"Nenhum dado foi fornecido no corpo da requisicao para atualizacao.">>

\* the records of the table whose id is the number id
RecordsOf(id) == {q \in table : q["id_feedback"].n = id}

\* C12: while the store answers, getById of an id that matches no record
\* gives null without throwing and getById of an id that matches a record
\* gives that record; a get request that has read the store is answered
\* 404 when no record has its id, and 200 with the record when one has.
C12_GetByIdAbsentOrRecord ==
    /\ \A id \in 1..(MaxId + 1) :
          \E r \in {buscarFeedbackPorId(table, id, "")} :
              /\ ~r.threw
              /\ RecordsOf(id) = {} => r.rows = <<>>
              /\ \A q \in RecordsOf(id) : r.rows = <<q>>
    /\ (resp.op = "get" /\ resp.stmts = 1 /\ ~StatementFailed(resp)) =>
          /\ RecordsOf(ParseInt(resp.path).v) = {} =>
                (resp.status = 404 /\ resp.rows = <<>>)
          /\ \A q \in RecordsOf(ParseInt(resp.path).v) :
                (resp.status = 200 /\ resp.rows = <<q>>)

C12_Witness ==
    /\ resp.op = "get"
    /\ resp.status = 404
    /\ resp.stmts = 1
    /\ resp.path = <<"1">>
    /\ RecordsOf(1) = {}
    /\ RecordsOf(2) # {}
    /\ buscarFeedbackPorId(table, 2, "").rows # <<>>

\* C13: a list request that the store answers is answered 200 with the
\* records of the table, each once, the later submission timestamp first;
\* with the empty sequence when the table is empty.
C13_ListIsTableNewestFirst ==
    (resp.op = "list" /\ ~StatementFailed(resp)) =>
        /\ resp.status = 200
        /\ Len(resp.rows) = Cardinality(table)
        /\ {resp.rows[i] : i \in DOMAIN resp.rows} = table
        /\ \A i, j \in DOMAIN resp.rows :
              i < j => resp.rows[i]["submission_datetime"].n
                          >= resp.rows[j]["submission_datetime"].n
        /\ table = {} => resp.rows = <<>>

C13_Witness ==
    /\ resp.op = "list"
    /\ resp.status = 200
    /\ Len(resp.rows) = 2
    /\ resp.rows[1]["submission_datetime"].n > resp.rows[2]["submission_datetime"].n
    /\ resp.rows[1]["id_feedback"].n > resp.rows[2]["id_feedback"].n

\* the message of the earliest rule a creation body fails, in the order
\* bus_number, bus_line, overall_rating, safety_rating
EarliestCreateMessage(body) ==
    IF BadText(body, "bus_number")
    THEN <<"O campo \"bus_number\" (Numero do onibus) e obrigatorio e deve ser um texto nao vazio.">>
    ELSE IF BadText(body, "bus_line")
    THEN <<"O campo \"bus_line\" (Linha do onibus) e obrigatorio e deve ser um texto nao vazio.">>
    ELSE IF BadRating(body, "overall_rating")
    THEN <<"O campo \"", "overall_rating", "\" e obrigatorio e deve ser um numero.">>
    ELSE <<"O campo \"", "safety_rating", "\" e obrigatorio e deve ser um numero.">>

\* the path fails the id rule of the handlers: it has no leading number, or
\* the number is not positive
FailsIdRule(path) == ParseInt(path).nan \/ ParseInt(path).v <= 0

\* C14: a create request that fails a rule is answered 400 with the message
\* of the earliest rule it fails, in the order bus_number, bus_line,
\* overall_rating, safety_rating; an update request whose path fails the id
\* rule is answered 400 with the message of the id rule whatever its body,
\* and one answered with the message of the empty-body rule has a path that
\* passes the id rule.
C14_EarliestRuleAnswers ==
    /\ (resp.op = "create" /\ BadCreateBody(resp.body)) =>
          (resp.status = 400 /\ resp.message = EarliestCreateMessage(resp.body))
    /\ (resp.op = "update" /\ FailsIdRule(resp.path)) =>
          /\ resp.status = 400
          /\ resp.message = <<"O ID fornecido na URL para atualizacao e invalido.">>
    /\ (/\ resp.op = "update"
        /\ resp.message = <<"Nenhum dado foi fornecido no corpo da requisicao para atualizacao.">>) =>
          /\ resp.status = 400
          /\ ~FailsIdRule(resp.path)
          /\ DOMAIN resp.body = {}

C14_Witness ==
    /\ resp.op = "create"
    /\ resp.status = 400
    /\ BadText(resp.body, "bus_number")
    /\ BadText(resp.body, "bus_line")
    /\ resp.message = EarliestCreateMessage(resp.body)

\* C15: the step of a list or get request, and the step that answers a
\* request with 400 or 404, leave the table as it is; an update request
\* answered 404 had 0 affected rows, and an UPDATE statement with 0 affected
\* rows leaves the table as it is.
C15_ReadsAndRefusalsKeepTable ==
    [][/\ (resp'.op \in {"list", "get"} \/ resp'.status \in {400, 404}) =>
            /\ table' = table
            /\ \A c \in Conns :
                  (pending[c].active /\ ~pending'[c].active) =>
                      pending[c].affectedRows = 0
       /\ \A c \in Conns :
            (/\ ~pending[c].active
             /\ pending'[c].active
             /\ pending'[c].affectedRows = 0) => table' = table]_vars

C15_Witness ==
    /\ resp.op = "update"
    /\ resp.status = 404
    /\ resp.old # <<>>
    /\ resp.dirty
    /\ table # {}

\* C16: an update request that supplies domain fields and is answered 200
\* has a record in the feedback field of its response, not null.
C16_Update200HasRecord ==
    (/\ resp.op = "update"
     /\ resp.status = 200
     /\ DOMAIN resp.body \subseteq DomainColumns) => resp.rows # <<>>

\* the value is a string that is not empty
NonEmptyString(v) == v.t = "string" /\ v.s # <<>>

\* C17: every record of the table has a non-empty string bus_number and a
\* non-empty string bus_line.
C17_BusFieldsNonEmpty ==
    \A r \in table :
        NonEmptyString(r["bus_number"]) /\ NonEmptyString(r["bus_line"])

====
